---- MODULE Spec2Model ----
(***************************************************************************)
(* Signed-response verification and validation cache of the keygen client  *)
(* (src/src/client/mod.rs), and the plugin builder that configures the     *)
(* client, and the plugin's validate_key and get_license operations on     *)
(* the managed state (src/src/lib.rs).                                     *)
(*                                                                         *)
(* Cryptography is symbolic: a signature is the pair (signer, signed       *)
(* data) together with its encoding, a digest is an injective tag of the   *)
(* body.  Time is counted in seconds; dates are RFC 2822 strings that      *)
(* either parse to an instant or do not parse.                             *)
(***************************************************************************)
EXTENDS Integers, FiniteSets, Sequences, TLC

\* ------------------------------------------------------------- bounds
\* The clock runs from 0 to MaxClockMinutes minutes, in half-minute steps.
MaxClockMinutes == 1

\* ------------------------------------------------- program constants
PUBLIC_KEY_LENGTH == 32
SIGNATURE_LENGTH == 64
DefaultMaxClockDrift == 5
DefaultCacheLifetime == 240
MinCacheLifetime == 60
MaxCacheLifetime == 1440
SecondsPerMinute == 60

HalfMinute == SecondsPerMinute \div 2

VARIABLES
    verify_key,       \* KeygenClient.verify_key
    max_clock_drift,  \* KeygenClient.max_clock_drift, minutes
    cache_lifetime,   \* KeygenClient.cache_lifetime, minutes
    now,              \* Utc::now(), seconds
    file,             \* the cache file at cache_path: {} or {record}
    returned,         \* what the last verify_response returned: {} or {record}
    call,             \* the last call of a verification entry point
    builder,          \* the Builder value
    setup,            \* the last Builder method called, with its argument
    mutex,            \* the holder of each managed Mutex, or "free"
    task,             \* each caller's position in its call, and the call's data
    licensed_state,   \* LicensedState's license: {} or {license}
    cached_by         \* the validate_key call that wrote the cache file

builderVars == <<builder, setup>>
stateVars == <<mutex, task, licensed_state, cached_by>>

vars ==
    <<verify_key, max_clock_drift, cache_lifetime, now, file, returned, call,
      builderVars, stateVars>>

\* ------------------------------------------------------------ results
Ok == [ok |-> TRUE, kind |-> "Ok", msg |-> ""]
Err(k, m) == [ok |-> FALSE, kind |-> k, msg |-> m]

\* --------------------------------------------------------------- keys
\* A configured verify key: whether the string is hex, the number of bytes
\* it decodes to, whether those bytes are a curve point, and whose key it is.
KeyAuthority == [hex |-> TRUE, len |-> PUBLIC_KEY_LENGTH, point |-> TRUE, id |-> "authority"]
KeyShort == [hex |-> TRUE, len |-> PUBLIC_KEY_LENGTH - 1, point |-> FALSE, id |-> "none"]
KeyOther == [hex |-> TRUE, len |-> PUBLIC_KEY_LENGTH, point |-> TRUE, id |-> "attacker"]
VerifyKeys == {KeyAuthority, KeyShort, KeyOther}

\* max_clock_drift is a field of the client, and new() sets it to 5.  The
\* check at mod.rs:125 is written for any value of the field: where
\* verify_response is studied on its own the field ranges over a negative
\* value, zero and the default.
MaxClockDrifts == {-1, 0, DefaultMaxClockDrift}
CacheLifetimes == {MinCacheLifetime, DefaultCacheLifetime}

\* -------------------------------------------------------------- dates
\* A date string: parseable as RFC 2822 to the instant t (seconds), or not.
DateAt(t) == [rfc2822 |-> TRUE, t |-> t]
DateBad == [rfc2822 |-> FALSE, t |-> 0]

\* DateTime::parse_from_rfc2822
ParseDate(d) == IF d.rfc2822 THEN Ok ELSE Err("Parse", "rfc2822")

\* Duration::num_minutes: whole minutes, truncated toward zero
NumMinutes(secs) ==
    IF secs >= 0 THEN secs \div SecondsPerMinute
    ELSE -((-secs) \div SecondsPerMinute)

\* Utc::now().signed_duration_since(date_time).num_minutes()
MinutesSince(t, d) == NumMinutes(t - d.t)

\* ------------------------------------------------------------- bodies
\* A response body: whether it is JSON, and whether that JSON has the shape
\* of a LicenseResponse.
BodyLicense == [json |-> TRUE, license |-> TRUE]
BodyErrors == [json |-> TRUE, license |-> FALSE]
BodyText == [json |-> FALSE, license |-> FALSE]

\* KeygenSig::digest: the digest recomputed from the body text
Digest(body) == [algo |-> "sha-256", of |-> body]

\* ---------------------------------------------------------- signatures
\* KeygenSig::data: the canonical signing string
SigData(target, host, date, body) ==
    [target |-> target, host |-> host, date |-> date, digest |-> Digest(body)]

\* A signature string: base64 or not, the number of bytes it decodes to, and
\* what was signed by whom.
Sign(signer, data) ==
    [b64 |-> TRUE, len |-> SIGNATURE_LENGTH, signer |-> signer, data |-> data]
NotBase64(s) == [s EXCEPT !.b64 = FALSE]
Truncated(s) == [s EXCEPT !.len = SIGNATURE_LENGTH - 1]

\* KeygenClient::verify_signature
VerifySignature(key, data, signature) ==
    IF ~key.hex \/ key.len # PUBLIC_KEY_LENGTH
    THEN Err("ParseErr", "Failed parsing verify key to bytes")
    ELSE IF ~key.point
    THEN Err("ParseErr", "Failed parsing verifying key")
    ELSE IF ~signature.b64
    THEN Err("ParseErr", "Failed decoding signature")
    ELSE IF signature.len # SIGNATURE_LENGTH
    THEN Err("ParseErr", "Invalid signature format")
    ELSE IF signature.signer = key.id /\ signature.data = data
    THEN Ok
    ELSE Err("ParseErr", "Invalid signature")

\* ---------------------------------------------------- KeygenSig (sig.rs)
\* A response as verify_response receives it: the Signature header (present
\* and well formed, missing, or malformed) with the signature it carries, the
\* Digest header (a set: empty when the header is missing), the Date header,
\* the request target and host of the request that was sent, and the body.
\* KeygenSig::from_response fails on a missing or malformed Signature header.
FromResponse(resp) ==
    IF resp.sigHeader = "missing"
    THEN Err("ParseErr", "Missing header: Signature")
    ELSE IF resp.sigHeader = "malformed"
    THEN Err("ParseErr", "Malformed header: Signature")
    ELSE Ok

\* sig.data() of KeygenSig::from_response: the canonical string rebuilt from
\* the request sent, the Date header and the digest of the body received
ResponseData(resp) == SigData(resp.target, resp.host, resp.date, resp.body)

\* sig.data() of KeygenSig::from_response_cache: the canonical string rebuilt
\* from the record's target, host, date and the digest of its body
CacheData(rec) == SigData(rec.target, rec.host, rec.date, rec.body)

\* ------------------------------------------------------ verify_response
\* mutant: the digest comparison is skipped
DigestMatches_Always(resp) == TRUE

\* sig.digest().eq(res_digest)
DigestMatches(resp) == Digest(resp.body) \in resp.digestHeader

\* mutant: a response dated exactly max_clock_drift minutes ago is stale
LiveStale_AtLimit(resp, t) ==
    max_clock_drift >= 0 /\ MinutesSince(t, resp.date) >= max_clock_drift

\* max_clock_drift >= 0 && minutes_since_response > max_clock_drift
LiveStale(resp, t) ==
    max_clock_drift >= 0 /\ MinutesSince(t, resp.date) > max_clock_drift

\* mutant: the record stores the host as target and the target as host
LiveRecord_SwapsHostTarget(resp) ==
    [sig |-> resp.sig, target |-> resp.host, host |-> resp.target,
     date |-> resp.date, body |-> resp.body]

\* the KeygenResponseCache that verify_response returns on success
LiveRecord(resp) ==
    [sig |-> resp.sig, target |-> resp.target, host |-> resp.host,
     date |-> resp.date, body |-> resp.body]

\* mutant: the date is checked before the digest
VerifyResponse_FreshnessFirst(resp, t) ==
    IF ~FromResponse(resp).ok
    THEN FromResponse(resp)
    ELSE IF ~ParseDate(resp.date).ok
    THEN Err("BadResponse", "Invalid signature date")
    ELSE IF LiveStale(resp, t)
    THEN Err("BadResponse", "Request date too old")
    ELSE IF resp.digestHeader = {}
    THEN Err("BadResponse", "Missing header: Digest")
    ELSE IF ~DigestMatches(resp)
    THEN Err("BadResponse", "Digest didn't match")
    ELSE IF VerifySignature(verify_key, ResponseData(resp), resp.sig).ok
    THEN Ok
    ELSE Err("BadResponse", "Invalid Signature")

\* KeygenClient::verify_response, called at time t
VerifyResponse(resp, t) ==
    IF ~FromResponse(resp).ok
    THEN FromResponse(resp)
    ELSE IF resp.digestHeader = {}
    THEN Err("BadResponse", "Missing header: Digest")
    ELSE IF ~DigestMatches(resp)
    THEN Err("BadResponse", "Digest didn't match")
    ELSE IF ~ParseDate(resp.date).ok
    THEN Err("BadResponse", "Invalid signature date")
    ELSE IF LiveStale(resp, t)
    THEN Err("BadResponse", "Request date too old")
    ELSE IF VerifySignature(verify_key, ResponseData(resp), resp.sig).ok
    THEN Ok
    ELSE Err("BadResponse", "Invalid Signature")

\* ------------------------------------------------ verify_response_cache
\* mutant: the expiry check is left out
CacheExpired_Skipped(rec, t) == FALSE

\* minutes_since_response > self.cache_lifetime
CacheExpired(rec, t) == MinutesSince(t, rec.date) > cache_lifetime

\* fs::remove_file(cache_path): fails when the file does not exist, or with
\* another I/O error (denied); otherwise the file is removed
RemoveFile(exists, denied) ==
    IF ~exists THEN Err("Io", "NotFound")
    ELSE IF denied THEN Err("Io", "PermissionDenied")
    ELSE Ok

\* mutant: an error of the removal is dropped and the trust error returned
RemoveThenFail_SwallowsIoError(exists, denied, msg) ==
    [res |-> Err("BadCache", msg), removed |-> RemoveFile(exists, denied).ok]

\* mutant: the error is returned without removing the file
RemoveThenFail_KeepsFile(exists, denied, msg) ==
    [res |-> Err("BadCache", msg), removed |-> FALSE]

\* fs::remove_file(cache_path)?; return Err(Error::BadCache(msg))
\* res: what the call returns; removed: whether the file was removed
RemoveThenFail(exists, denied, msg) ==
    IF RemoveFile(exists, denied).ok
    THEN [res |-> Err("BadCache", msg), removed |-> TRUE]
    ELSE [res |-> RemoveFile(exists, denied), removed |-> FALSE]

\* serde_json::from_str, then serde_json::from_value::<LicenseResponse>
Deserialize(body) ==
    IF ~body.json
    THEN Err("BadCache", "Failed parsing cached response body")
    ELSE IF ~body.license
    THEN Err("BadCache", "Failed deserializing license response")
    ELSE Ok

\* mutant: a body that does not deserialize also removes the file
VerifyResponseCache_RemovesUndecodable(rec, exists, denied, t) ==
    IF ~ParseDate(rec.date).ok
    THEN [res |-> Err("BadCache", "Failed parsing cached response date"),
          removed |-> FALSE]
    ELSE IF CacheExpired(rec, t)
    THEN RemoveThenFail(exists, denied, "Validation cache has expired")
    ELSE IF VerifySignature(verify_key, CacheData(rec), rec.sig).ok
    THEN IF Deserialize(rec.body).ok
         THEN [res |-> Ok, removed |-> FALSE]
         ELSE RemoveThenFail(exists, denied, Deserialize(rec.body).msg)
    ELSE RemoveThenFail(exists, denied, "Invalid Signature")

\* KeygenClient::verify_response_cache, called at time t on the record rec,
\* with the file at cache_path existing or not
VerifyResponseCache(rec, exists, denied, t) ==
    IF ~ParseDate(rec.date).ok
    THEN [res |-> Err("BadCache", "Failed parsing cached response date"),
          removed |-> FALSE]
    ELSE IF CacheExpired(rec, t)
    THEN RemoveThenFail(exists, denied, "Validation cache has expired")
    ELSE IF VerifySignature(verify_key, CacheData(rec), rec.sig).ok
    THEN [res |-> Deserialize(rec.body), removed |-> FALSE]
    ELSE RemoveThenFail(exists, denied, "Invalid Signature")

\* --------------------------------------------------------------- inputs
TargetSent == "post /validate-key"
TargetOther == "get /licenses"
HostSent == "api.keygen.sh"
HostOther == "mirror.example"

\* The dates of the responses: on the edge of the cache lifetime and on the
\* edge of the live freshness window at time 0.
DateOld == DateAt(-(cache_lifetime * SecondsPerMinute))
DateRecent ==
    DateAt(-((IF max_clock_drift >= 0 THEN max_clock_drift ELSE 0) * SecondsPerMinute))
Dates == {DateOld, DateRecent}
Bodies == {BodyLicense, BodyErrors}

OtherBody(b) == IF b = BodyLicense THEN BodyErrors ELSE BodyLicense
OtherDate(d) == IF d = DateOld THEN DateRecent ELSE DateOld

\* What the authority sends in answer to the request sent: the body, its
\* digest, the date, and its signature over the canonical string.
Genuine(date, body) ==
    [sigHeader |-> "ok",
     sig |-> Sign("authority", SigData(TargetSent, HostSent, date, body)),
     digestHeader |-> {Digest(body)},
     date |-> date, target |-> TargetSent, host |-> HostSent, body |-> body]

GenuineResponses == {Genuine(d, b) : d \in Dates, b \in Bodies}

ResponseAlterations ==
    {"none", "no_signature", "bad_signature_header", "sig_not_base64",
     "sig_truncated", "sig_forged", "no_digest", "digest_forged", "body",
     "body_and_digest", "date_bad", "date_other", "target", "host"}

\* One alteration of a response between the authority and the client
AlterResponse(r, how) ==
    CASE how = "none" -> r
      [] how = "no_signature" -> [r EXCEPT !.sigHeader = "missing"]
      [] how = "bad_signature_header" -> [r EXCEPT !.sigHeader = "malformed"]
      [] how = "sig_not_base64" -> [r EXCEPT !.sig = NotBase64(r.sig)]
      [] how = "sig_truncated" -> [r EXCEPT !.sig = Truncated(r.sig)]
      [] how = "sig_forged" -> [r EXCEPT !.sig = Sign("attacker", r.sig.data)]
      [] how = "no_digest" -> [r EXCEPT !.digestHeader = {}]
      [] how = "digest_forged" ->
            [r EXCEPT !.digestHeader = {Digest(OtherBody(r.body))}]
      [] how = "body" -> [r EXCEPT !.body = OtherBody(r.body)]
      [] how = "body_and_digest" ->
            [r EXCEPT !.body = OtherBody(r.body),
                      !.digestHeader = {Digest(OtherBody(r.body))}]
      [] how = "date_bad" -> [r EXCEPT !.date = DateBad]
      [] how = "date_other" -> [r EXCEPT !.date = OtherDate(r.date)]
      [] how = "target" -> [r EXCEPT !.target = TargetOther]
      [] how = "host" -> [r EXCEPT !.host = HostOther]

Responses ==
    {AlterResponse(g, how) : g \in GenuineResponses, how \in ResponseAlterations}

RecordAlterations ==
    {"sig_not_base64", "sig_forged", "body", "date_bad", "date_other",
     "target", "host"}

\* One alteration of a field of the cache file
AlterRecord(r, how) ==
    CASE how = "sig_not_base64" -> [r EXCEPT !.sig = NotBase64(r.sig)]
      [] how = "sig_forged" -> [r EXCEPT !.sig = Sign("attacker", r.sig.data)]
      [] how = "body" -> [r EXCEPT !.body = OtherBody(r.body)]
      [] how = "date_bad" -> [r EXCEPT !.date = DateBad]
      [] how = "date_other" -> [r EXCEPT !.date = OtherDate(r.date)]
      [] how = "target" -> [r EXCEPT !.target = TargetOther]
      [] how = "host" -> [r EXCEPT !.host = HostOther]

\* A record that carries the authority's signature over its own fields
Authentic(r) == r.sig = Sign("authority", CacheData(r))

\* -------------------------------------------------------------- Builder
\* An Option is a set: {} for None, {v} for Some(v).
ApiUrlDefault == "https://api.keygen.sh"
ApiUrlOther == "https://licenses.example"
AccountId == "acme"
CustomDomain == "licenses.acme.example"
VersionHeaderValue == "1.7"

\* Builder::new
Builder_new(account_id, key) ==
    [custom_domain |-> {}, api_url |-> {ApiUrlDefault},
     account_id |-> {account_id}, verify_key |-> key, version_header |-> {},
     cache_lifetime |-> DefaultCacheLifetime]

\* Builder::with_custom_domain
Builder_with_custom_domain(custom_domain, key) ==
    [custom_domain |-> {custom_domain}, api_url |-> {}, account_id |-> {},
     verify_key |-> key, version_header |-> {},
     cache_lifetime |-> DefaultCacheLifetime]

\* mutant: api_url is stored whatever the scoping of the builder
Builder_api_url_Unguarded(b, api_url) == [b EXCEPT !.api_url = {api_url}]

\* Builder::api_url
Builder_api_url(b, api_url) ==
    IF b.custom_domain = {} THEN [b EXCEPT !.api_url = {api_url}] ELSE b

\* Builder::version_header
Builder_version_header(b, version_header) ==
    [b EXCEPT !.version_header = {version_header}]

\* i64::clamp(min, max)
Clamp(n, min, max) == IF n < min THEN min ELSE IF n > max THEN max ELSE n

\* mutant: the value is stored as given
Builder_cache_lifetime_Unclamped(b, minutes) ==
    [b EXCEPT !.cache_lifetime = minutes]

\* Builder::cache_lifetime
Builder_cache_lifetime(b, minutes) ==
    [b EXCEPT !.cache_lifetime = Clamp(minutes, MinCacheLifetime, MaxCacheLifetime)]

\* The arguments given to Builder::cache_lifetime: below, on and above each
\* end of the range.
LifetimeInputs ==
    {-1, MinCacheLifetime - 1, MinCacheLifetime, MinCacheLifetime + 1,
     MaxCacheLifetime, MaxCacheLifetime + 1}

\* -------------------------------------------------------- managed state
\* The three Mutexes that build() hands to the application.
Locks == {"license_state", "client", "machine"}

\* The concurrent callers: two of validate_key, one of get_license.
Validators == {"v1", "v2"}
Readers == {"g1"}
Tasks == Validators \cup Readers

\* A caller that is not in a call.
Idle ==
    [pc |-> "idle", held |-> 0, cache_valid_response |-> FALSE, before |-> {},
     out |-> {}, res |-> {}, got |-> {}]

\* No call is running, every Mutex is free, no license is loaded.
NoTasks ==
    /\ mutex = [l \in Locks |-> "free"]
    /\ task = [p \in Tasks |-> Idle]
    /\ licensed_state = {}
    /\ cached_by = {}

\* ---------------------------------------------------------------- state
\* A call: the entry point, its input (resp or rec), whether the cache file
\* existed when it started, whether the call removed it, whether the file
\* system refused a removal during it, the time of the call, and the result.
NoCall ==
    [op |-> "none", resp |-> {}, rec |-> {}, existed |-> FALSE,
     removed |-> FALSE, denied |-> FALSE, at |-> 0, res |-> Ok]

\* setup once Builder::build has run
Built == [op |-> "build", arg |-> {}]

\* After construction: the client holds its configuration (new() sets
\* max_clock_drift to 5), and the cache file is absent or holds the record of
\* a response of the authority that an earlier run wrote.
Init ==
    /\ verify_key \in VerifyKeys
    /\ max_clock_drift = DefaultMaxClockDrift
    /\ cache_lifetime \in CacheLifetimes
    /\ now = 0
    /\ file \in {{}} \cup {{LiveRecord(g)} : g \in GenuineResponses}
    /\ returned = {}
    /\ call = NoCall
    /\ builder = Builder_cache_lifetime(Builder_new(AccountId, verify_key),
                                        cache_lifetime)
    /\ setup = Built
    /\ NoTasks

\* Time passes.
Tick ==
    /\ now + HalfMinute <= MaxClockMinutes * SecondsPerMinute
    /\ now' = now + HalfMinute
    /\ UNCHANGED <<verify_key, max_clock_drift, cache_lifetime, file, returned, call>>
    /\ UNCHANGED <<builderVars, stateVars>>

\* A call of verify_response on a response received now.
LiveVerify(resp) ==
    /\ returned' = IF VerifyResponse(resp, now).ok THEN {LiveRecord(resp)} ELSE {}
    /\ call' = [op |-> "verify_response", resp |-> {resp}, rec |-> {},
                existed |-> file # {}, removed |-> FALSE, denied |-> FALSE,
                at |-> now,
                res |-> VerifyResponse(resp, now)]
    /\ UNCHANGED <<verify_key, max_clock_drift, cache_lifetime, now, file>>
    /\ UNCHANGED <<builderVars, stateVars>>

\* The caller writes the record that verify_response returned to the cache
\* file (LicensedState::cache_response).
CacheResponse ==
    /\ returned # {}
    /\ file' = returned
    /\ UNCHANGED <<verify_key, max_clock_drift, cache_lifetime, now, returned, call>>
    /\ UNCHANGED <<builderVars, stateVars>>

\* Someone without the authority's key edits one field of an authentic
\* cache file.
Tamper(how) ==
    /\ \E r \in file :
          /\ Authentic(r)
          /\ file' = {AlterRecord(r, how)}
    /\ UNCHANGED <<verify_key, max_clock_drift, cache_lifetime, now, returned, call>>
    /\ UNCHANGED <<builderVars, stateVars>>

\* A call of verify_response_cache on a record read from the cache file:
\* read now, or read by a second caller before the previous call on the same
\* record finished.  denied: the file system refuses to remove the file.
CacheVerify(rec, denied) ==
    /\ LET out == VerifyResponseCache(rec, file # {}, denied, now) IN
          /\ file' = IF out.removed THEN {} ELSE file
          /\ call' = [op |-> "verify_response_cache", resp |-> {},
                      rec |-> {rec}, existed |-> file # {},
                      removed |-> out.removed,
                      denied |-> denied,
                      at |-> now, res |-> out.res]
    /\ UNCHANGED <<verify_key, max_clock_drift, cache_lifetime, now, returned>>
    /\ UNCHANGED <<builderVars, stateVars>>

\* The records a caller of verify_response_cache can hold: the one in the
\* cache file, or the one of the previous call, read by a second caller
\* before that call finished.
Readable == file \cup call.rec

Next ==
    \/ Tick
    \/ \E resp \in GenuineResponses : LiveVerify(resp)
    \/ CacheResponse
    \/ \E how \in RecordAlterations : Tamper(how)
    \/ \E rec \in Readable, denied \in BOOLEAN : CacheVerify(rec, denied)

Spec == Init /\ [][Next]_vars

\* verify_response on every response, for every value of max_clock_drift.
InitLive ==
    /\ verify_key \in VerifyKeys
    /\ max_clock_drift \in MaxClockDrifts
    /\ cache_lifetime = DefaultCacheLifetime
    /\ now = 0
    /\ file \in {{}, {LiveRecord(Genuine(DateOld, BodyLicense))}}
    /\ returned = {}
    /\ call = NoCall
    /\ builder = Builder_new(AccountId, verify_key)
    /\ setup = Built
    /\ NoTasks

NextLive ==
    \/ Tick
    \/ \E resp \in Responses : LiveVerify(resp)
    \/ CacheResponse
    \/ \E rec \in Readable, denied \in BOOLEAN : CacheVerify(rec, denied)

SpecLive == InitLive /\ [][NextLive]_vars

\* ------------------------------------------------ configuring the plugin
\* The age in minutes, at time 0, of the record an earlier run left in the
\* cache file: on each end of the range of cache_lifetime and a minute past
\* the lower end.
LeftoverAges == {MinCacheLifetime, MinCacheLifetime + 1, MaxCacheLifetime}

Leftover(age) ==
    LiveRecord(Genuine(DateAt(-(age * SecondsPerMinute)), BodyLicense))

\* A Builder fresh from one of its two constructors; no client exists yet.
InitBuilder ==
    /\ \E key \in VerifyKeys :
          builder \in {Builder_new(AccountId, key),
                       Builder_with_custom_domain(CustomDomain, key)}
    /\ setup = [op |-> IF builder.custom_domain = {} THEN "new"
                                                     ELSE "with_custom_domain",
                arg |-> {}]
    /\ verify_key = "unbuilt"
    /\ max_clock_drift = 0
    /\ cache_lifetime = 0
    /\ now = 0
    /\ file \in {{}} \cup {{Leftover(age)} : age \in LeftoverAges}
    /\ returned = {}
    /\ call = NoCall
    /\ NoTasks

\* builder.api_url(url)
ApiUrl(url) ==
    /\ setup # Built
    /\ builder' = Builder_api_url(builder, url)
    /\ setup' = [op |-> "api_url", arg |-> {url}]
    /\ UNCHANGED <<verify_key, max_clock_drift, cache_lifetime, now, file, returned, call>>
    /\ UNCHANGED stateVars

\* builder.version_header(v)
VersionHeader(v) ==
    /\ setup # Built
    /\ builder' = Builder_version_header(builder, v)
    /\ setup' = [op |-> "version_header", arg |-> {v}]
    /\ UNCHANGED <<verify_key, max_clock_drift, cache_lifetime, now, file, returned, call>>
    /\ UNCHANGED stateVars

\* builder.cache_lifetime(minutes)
CacheLifetime(minutes) ==
    /\ setup # Built
    /\ builder' = Builder_cache_lifetime(builder, minutes)
    /\ setup' = [op |-> "cache_lifetime", arg |-> {minutes}]
    /\ UNCHANGED <<verify_key, max_clock_drift, cache_lifetime, now, file, returned, call>>
    /\ UNCHANGED stateVars

\* builder.build(), whose setup closure calls KeygenClient::new with the
\* builder's verify_key and cache_lifetime
Build ==
    /\ setup # Built
    /\ setup' = Built
    /\ verify_key' = builder.verify_key
    /\ max_clock_drift' = DefaultMaxClockDrift
    /\ cache_lifetime' = builder.cache_lifetime
    /\ UNCHANGED <<now, file, returned, call, builder, stateVars>>

NextBuilder ==
    \/ ApiUrl(ApiUrlOther)
    \/ VersionHeader(VersionHeaderValue)
    \/ \E minutes \in LifetimeInputs : CacheLifetime(minutes)
    \/ Build
    \/ setup = Built /\ Tick
    \/ setup = Built /\ \E rec \in file : CacheVerify(rec, FALSE)

SpecBuilder == InitBuilder /\ [][NextBuilder]_vars

\* ------------------------------------------ validate_key and get_license
\* The License of a response: its key, whether the authority reports it
\* valid, and its expiry (an Option).
LicenseKey == "KEY-1"
ExpiryDate == "2030-01-01T00:00:00Z"
Licenses ==
    {[key |-> LicenseKey, valid |-> v, expiry |-> e] :
        v \in BOOLEAN, e \in {{}, {ExpiryDate}}}

\* The body of a validation response that carries the license l
LicenseBody(l) == [json |-> TRUE, license |-> TRUE, data |-> l]

\* What the network hands to a validate_key call: the authority's answer for
\* each license, or an answer whose signature was forged.
ValidateResponses ==
    {Genuine(DateRecent, LicenseBody(l)) : l \in Licenses}
    \cup {AlterResponse(Genuine(DateRecent, LicenseBody(l)), "sig_forged") :
            l \in {k \in Licenses : k.valid /\ k.expiry # {}}}

\* LicensedState::validate_key: the request is sent, the response verified
\* with client.verify_response, and the license returned with the record
\* of the response
ValidateKey(resp, t) ==
    IF VerifyResponse(resp, t).ok
    THEN [res |-> Ok,
          out |-> {[license |-> resp.body.data, res_cache |-> LiveRecord(resp)]}]
    ELSE [res |-> VerifyResponse(resp, t), out |-> {}]

\* mutant: validate_key does not take the license-state lock
LockOrder_NoLicenseLock(p) ==
    IF p \in Validators THEN <<"client", "machine">> ELSE <<"license_state">>

\* mutant: one caller of validate_key takes the locks in the reverse order
LockOrder_ReversedForOne(p) ==
    IF p = "v2" THEN <<"machine", "client", "license_state">>
    ELSE IF p \in Validators THEN <<"license_state", "client", "machine">>
    ELSE <<"license_state">>

\* The Mutexes a call locks, in the order of its block_on(..lock()) lines
LockOrder(p) ==
    IF p \in Validators THEN <<"license_state", "client", "machine">>
    ELSE <<"license_state">>

\* mutant: the response is cached whatever the caller asked for
ShouldCache_IgnoresFlag(license, cache_valid_response) ==
    license.valid /\ license.expiry # {}

\* license.valid && cache_valid_response && license.expiry.is_some()
ShouldCache(license, cache_valid_response) ==
    license.valid /\ cache_valid_response /\ license.expiry # {}

\* The client is built with the authority's key; nothing is cached, no license
\* is loaded and no call is running.
InitLocks ==
    /\ verify_key = KeyAuthority
    /\ max_clock_drift = DefaultMaxClockDrift
    /\ cache_lifetime = DefaultCacheLifetime
    /\ now = 0
    /\ file = {}
    /\ returned = {}
    /\ call = NoCall
    /\ builder = Builder_new(AccountId, verify_key)
    /\ setup = Built
    /\ NoTasks

\* A caller enters validate_key(key, entitlements, cache_valid_response).
CallValidateKey(p, cache_valid_response) ==
    /\ task[p].pc = "idle"
    /\ task' = [task EXCEPT ![p] =
                  [Idle EXCEPT !.pc = "lock",
                               !.cache_valid_response = cache_valid_response]]
    /\ UNCHANGED <<verify_key, max_clock_drift, cache_lifetime, now, file, returned, call>>
    /\ UNCHANGED <<builderVars, mutex, licensed_state, cached_by>>

\* A caller enters get_license().
CallGetLicense(g) ==
    /\ task[g].pc = "idle"
    /\ task' = [task EXCEPT ![g] = [Idle EXCEPT !.pc = "lock"]]
    /\ UNCHANGED <<verify_key, max_clock_drift, cache_lifetime, now, file, returned, call>>
    /\ UNCHANGED <<builderVars, mutex, licensed_state, cached_by>>

\* block_on(state.lock()): the call takes its next Mutex once it is free;
\* with its last Mutex it goes on to its body.  before: the license state
\* the call finds when it takes that lock.
Lock(p) ==
    /\ task[p].pc = "lock"
    /\ LET l == LockOrder(p)[task[p].held + 1] IN
          /\ mutex[l] = "free"
          /\ mutex' = [mutex EXCEPT ![l] = p]
          /\ task' = [task EXCEPT
                ![p].held = @ + 1,
                ![p].before = IF l = "license_state" THEN licensed_state ELSE @,
                ![p].pc = IF task[p].held + 1 < Len(LockOrder(p)) THEN "lock"
                          ELSE IF p \in Validators THEN "validate"
                          ELSE "read"]
    /\ UNCHANGED <<verify_key, max_clock_drift, cache_lifetime, now, file, returned, call>>
    /\ UNCHANGED <<builderVars, licensed_state, cached_by>>

\* block_on(licensed_state.validate_key(..)) with the response resp: on Err
\* the call is about to return that error.
Validate(p, resp) ==
    /\ task[p].pc = "validate"
    /\ LET v == ValidateKey(resp, now) IN
          task' = [task EXCEPT
                ![p].out = v.out,
                ![p].res = IF v.res.ok THEN {} ELSE {v.res},
                ![p].pc = IF v.res.ok THEN "finish" ELSE "return"]
    /\ UNCHANGED <<verify_key, max_clock_drift, cache_lifetime, now, file, returned, call>>
    /\ UNCHANGED <<builderVars, mutex, licensed_state, cached_by>>

\* The Ok arm of validate_key: cache_response if the response is to be
\* cached (? returns its error), then licensed_state.update, then
\* cache_license_key (? returns its error), then Ok(license).
\* cache_fails, key_fails: the file system fails that write.
Finish(p, cache_fails, key_fails) ==
    /\ task[p].pc = "finish"
    /\ \E o \in task[p].out :
          LET caching == ShouldCache(o.license, task[p].cache_valid_response) IN
          IF caching /\ cache_fails
          THEN /\ task' = [task EXCEPT
                     ![p].res = {Err("Io", "cache_response")},
                     ![p].pc = "return"]
               /\ UNCHANGED <<file, licensed_state, cached_by>>
          ELSE /\ file' = IF caching THEN {o.res_cache} ELSE file
               /\ cached_by' =
                     IF caching
                     THEN {[task |-> p, license |-> o.license,
                            cache_valid_response |-> task[p].cache_valid_response,
                            res_cache |-> o.res_cache]}
                     ELSE cached_by
               /\ licensed_state' = {o.license}
               /\ task' = [task EXCEPT
                     ![p].res = {IF key_fails THEN Err("Io", "cache_license_key")
                                 ELSE Ok},
                     ![p].pc = "return"]
    /\ UNCHANGED <<verify_key, max_clock_drift, cache_lifetime, now, returned, call>>
    /\ UNCHANGED <<builderVars, mutex>>

\* lstate.get_license(): the call reads the license state.
Read(g) ==
    /\ task[g].pc = "read"
    /\ task' = [task EXCEPT ![g].got = licensed_state,
                            ![g].res = {Ok},
                            ![g].pc = "return"]
    /\ UNCHANGED <<verify_key, max_clock_drift, cache_lifetime, now, file, returned, call>>
    /\ UNCHANGED <<builderVars, mutex, licensed_state, cached_by>>

\* The call returns: its guards are dropped, which frees every Mutex it holds.
Return(p) ==
    /\ task[p].pc = "return"
    /\ mutex' = [l \in Locks |-> IF mutex[l] = p THEN "free" ELSE mutex[l]]
    /\ task' = [task EXCEPT ![p] = Idle]
    /\ UNCHANGED <<verify_key, max_clock_drift, cache_lifetime, now, file, returned, call>>
    /\ UNCHANGED <<builderVars, licensed_state, cached_by>>

\* The steps of a call once it has its locks.
Run(p) ==
    \/ \E resp \in ValidateResponses : Validate(p, resp)
    \/ \E cache_fails \in BOOLEAN, key_fails \in BOOLEAN :
          Finish(p, cache_fails, key_fails)
    \/ Read(p)
    \/ Return(p)

NextLocks ==
    \/ \E p \in Validators, cache_valid_response \in BOOLEAN :
          CallValidateKey(p, cache_valid_response)
    \/ \E g \in Readers : CallGetLicense(g)
    \/ \E p \in Tasks : Lock(p)
    \/ \E p \in Tasks : Run(p)

\* A call that has its locks runs to its return, and a call waiting for a
\* Mutex that is freed again and again gets it (tokio's Mutex serves its
\* waiters in order of arrival).  Nothing obliges a caller to start a call.
SpecLocks ==
    /\ InitLocks
    /\ [][NextLocks]_vars
    /\ \A p \in Tasks : WF_vars(Run(p)) /\ SF_vars(Lock(p))

\* ------------------------------------------------------------ properties
\* What the properties say about a call, stated on its inputs.
IsLiveCall == call.op = "verify_response"
IsCacheCall == call.op = "verify_response_cache"

\* the date d parses and more than m whole minutes lie between it and time t
OlderThan(d, t, m) == d.rfc2822 /\ t - d.t >= (m + 1) * SecondsPerMinute

\* the key is a well-formed public key and sig is its owner's signature of data
SignedBy(key, data, sig) ==
    /\ key.hex /\ key.len = PUBLIC_KEY_LENGTH /\ key.point
    /\ sig = Sign(key.id, data)

\* the record's signature verifies under the configured key
RecordSigned(r) ==
    SignedBy(verify_key, SigData(r.target, r.host, r.date, r.body), r.sig)

\* the record is older than cache_lifetime at the time of the call
RecordExpired(r) == OlderThan(r.date, call.at, cache_lifetime)

\* after the call, no file is at cache_path
FileGone == ~call.existed \/ call.removed

\* the file was at cache_path and the file system let it be removed
Removable == call.existed /\ ~call.denied

\* C1: on the cache read path every failure of signature verification, of the
\* freshness check or of deserializing the body removes the cache file before
\* the error is returned.  (Violated: a body that does not deserialize.)
C1_EveryFailureRemovesFile ==
    \A r \in call.rec :
        (/\ IsCacheCall
         /\ Removable
         /\ r.date.rfc2822
         /\ RecordExpired(r) \/ ~RecordSigned(r) \/ ~r.body.json \/ ~r.body.license)
        => FileGone

\* C2: loading a record whose signature does not verify under the configured
\* key, from a cache file that is there and can be removed, returns BadCache
\* and leaves no file at cache_path.
C2_TamperedSigRejected ==
    \A r \in call.rec :
        (IsCacheCall /\ Removable /\ r.date.rfc2822 /\ ~RecordSigned(r))
        => (call.res.kind = "BadCache" /\ call.removed /\ FileGone)

\* C2 witness: the authority's record with a forged sig field was loaded
\* before it expired, rejected with BadCache and its file removed.
C2_Witness ==
    /\ IsCacheCall
    /\ verify_key = KeyAuthority
    /\ \E r \in call.rec :
          /\ r.sig = Sign("attacker", SigData(r.target, r.host, r.date, r.body))
          /\ ~RecordExpired(r)
    /\ call.res = Err("BadCache", "Invalid Signature")
    /\ call.existed /\ call.removed
    /\ file = {}

\* C6: a record older than cache_lifetime is never accepted, whatever its
\* signature and for every configuration; when its file is there and can be
\* removed the call returns BadCache (expired) and removes it; and a record
\* whose signature does not verify is removed although it has not expired.
C6_ExpiredOrUnsignedRemoved ==
    \A r \in call.rec :
        (IsCacheCall /\ r.date.rfc2822) =>
            /\ RecordExpired(r) => ~call.res.ok
            /\ (RecordExpired(r) /\ Removable) =>
                  (/\ call.res = Err("BadCache", "Validation cache has expired")
                   /\ call.removed)
            /\ (~RecordExpired(r) /\ ~RecordSigned(r) /\ Removable) =>
                  (call.res.kind = "BadCache" /\ call.removed)

\* C6 witness: a record with a valid signature was loaded after it expired,
\* rejected and its file removed.
C6_Witness ==
    /\ IsCacheCall
    /\ \E r \in call.rec : RecordExpired(r) /\ RecordSigned(r)
    /\ call.res = Err("BadCache", "Validation cache has expired")
    /\ call.existed /\ call.removed

\* C7: a failed verification that finds the cache file already absent gets no
\* error from the removal and still reports BadCache.  (Violated: the removal
\* of the absent file fails and its I/O error is returned.)
C7_SecondRemovalIsNoError ==
    \A r \in call.rec :
        (/\ IsCacheCall
         /\ ~call.existed
         /\ r.date.rfc2822
         /\ RecordExpired(r) \/ ~RecordSigned(r))
        => call.res.kind = "BadCache"

\* C11: when the trust check on a record fails and the removal of the cache
\* file fails (the file is absent, or the file system refuses), the call
\* returns that I/O error and not BadCache, and removes nothing.
C11_RemovalErrorSurfaced ==
    \A r \in call.rec :
        (/\ IsCacheCall
         /\ r.date.rfc2822
         /\ RecordExpired(r) \/ ~RecordSigned(r)
         /\ ~Removable)
        => (/\ call.res = Err("Io", IF call.existed THEN "PermissionDenied"
                                                     ELSE "NotFound")
            /\ ~call.removed)

\* C11 witness: the signature of the record in the cache file did not verify,
\* the file system refused the removal, the call returned the I/O error and
\* the file is still there.
C11_Witness ==
    /\ IsCacheCall
    /\ call.existed /\ call.denied
    /\ \E r \in call.rec : ~RecordExpired(r) /\ ~RecordSigned(r)
    /\ call.res = Err("Io", "PermissionDenied")
    /\ file # {}

\* C15: a record whose date does not parse as RFC 2822 is rejected with
\* BadCache and its cache file, when there and removable, is removed.
\* (Violated: the call returns before any removal.)
C15_BadDateRemovesFile ==
    \A r \in call.rec :
        (IsCacheCall /\ ~r.date.rfc2822 /\ Removable)
        => (call.res.kind = "BadCache" /\ FileGone)

\* C12: the cache_lifetime of a Builder is always within [60, 1440]: 240 from
\* both constructors, the argument clamped to the range by the cache_lifetime
\* setter, and untouched by the other setters; build hands that value to the
\* client, and verify_response_cache declares a record expired exactly when
\* its age exceeds the stored value.
C12_LifetimeClampedWhenConfigured ==
    /\ [](/\ builder.cache_lifetime \in MinCacheLifetime..MaxCacheLifetime
          /\ setup.op \in {"new", "with_custom_domain"} =>
                builder.cache_lifetime = DefaultCacheLifetime
          /\ \A n \in setup.arg :
                setup.op = "cache_lifetime" =>
                    builder.cache_lifetime =
                        (IF n < MinCacheLifetime THEN MinCacheLifetime
                         ELSE IF n > MaxCacheLifetime THEN MaxCacheLifetime
                         ELSE n)
          /\ setup = Built =>
                /\ cache_lifetime = builder.cache_lifetime
                /\ cache_lifetime \in MinCacheLifetime..MaxCacheLifetime
          /\ \A r \in call.rec :
                (IsCacheCall /\ r.date.rfc2822 /\ Removable) =>
                    (call.res = Err("BadCache", "Validation cache has expired")
                     <=> call.at - r.date.t >= (cache_lifetime + 1) * SecondsPerMinute))
    /\ [][setup'.op \in {"api_url", "version_header", "build"} =>
             builder'.cache_lifetime = builder.cache_lifetime]_vars

\* C12 witness: a client built with the lower end of the range has rejected
\* as expired a record one minute older than that.
C12_Witness ==
    /\ setup = Built
    /\ builder.cache_lifetime = MinCacheLifetime
    /\ cache_lifetime = MinCacheLifetime
    /\ IsCacheCall
    /\ \E r \in call.rec :
          call.at - r.date.t = (MinCacheLifetime + 1) * SecondsPerMinute
    /\ call.res = Err("BadCache", "Validation cache has expired")

\* C13: in every Builder exactly one of account_id and custom_domain is set;
\* a custom-domain builder has no api_url, and no setter changes its scoping.
C13_ExactlyOneScope ==
    /\ [](/\ (builder.account_id = {}) <=> (builder.custom_domain # {})
          /\ Cardinality(builder.account_id) + Cardinality(builder.custom_domain) = 1
          /\ builder.custom_domain # {} => builder.api_url = {})
    /\ [][builder.custom_domain # {} =>
             /\ builder'.custom_domain = builder.custom_domain
             /\ builder'.account_id = {}
             /\ builder'.api_url = {}]_vars

\* C13 witness: api_url was called on a custom-domain builder, which still has
\* its custom domain, no account and no api_url.
C13_Witness ==
    /\ setup = [op |-> "api_url", arg |-> {ApiUrlOther}]
    /\ builder.custom_domain = {CustomDomain}
    /\ builder.account_id = {}
    /\ builder.api_url = {}

\* a validate_key call between the start of its validation and its return
MidCall(p) == task[p].pc \in {"validate", "finish", "return"}

\* C14: a validate_key call holds the license-state lock from before its
\* validation starts until it returns; the license state changes only in a
\* step of the call that holds the lock; and get_license reads the state, under
\* the lock, only when no validate_key call is between those two points.
C14_LicenseLockHeldThroughout ==
    /\ [](/\ \A p \in Validators : MidCall(p) => mutex["license_state"] = p
          /\ \A g \in Readers :
                task[g].pc \in {"read", "return"} =>
                    /\ mutex["license_state"] = g
                    /\ \A p \in Validators : ~MidCall(p)
          /\ \A g \in Readers :
                task[g].pc = "return" =>
                    (task[g].got = licensed_state /\ task[g].got = task[g].before))
    /\ [][licensed_state' # licensed_state =>
             \E p \in Validators :
                 /\ mutex["license_state"] = p
                 /\ task[p].pc = "finish" /\ task'[p].pc = "return"]_vars
    /\ [][\A g \in Readers :
             task'[g].got # task[g].got =>
                 \/ task'[g].pc = "idle"
                 \/ \A p \in Validators : ~MidCall(p)]_vars

\* C14 witness: a validate_key call has updated the license state and not yet
\* returned, and a get_license call is waiting for the lock it holds.
C14_Witness ==
    \E p \in Validators, g \in Readers :
        /\ task[p].pc = "return"
        /\ licensed_state # task[p].before
        /\ mutex["license_state"] = p
        /\ task[g].pc = "lock"

\* the order in which the locks are to be taken
FixedOrder == <<"license_state", "client", "machine">>

\* the Mutexes the call p holds
HeldBy(p) == {l \in Locks : mutex[l] = p}

\* the call p is waiting for a Mutex that another call holds
Blocked(p) ==
    /\ task[p].pc = "lock"
    /\ mutex[LockOrder(p)[task[p].held + 1]] # "free"

\* C16: the Mutexes a call holds are always the first n of license state,
\* client, machine (get_license holds at most the first); whenever calls are
\* running, one of them is not waiting for a lock; and every call returns.
C16_FixedLockOrderNoDeadlock ==
    /\ [](/\ \A p \in Tasks :
                \E n \in 0..Len(FixedOrder) :
                    HeldBy(p) = {FixedOrder[i] : i \in 1..n}
          /\ \A g \in Readers : HeldBy(g) \subseteq {"license_state"}
          /\ (\E p \in Tasks : task[p].pc # "idle") =>
                (\E p \in Tasks : task[p].pc # "idle" /\ ~Blocked(p)))
    /\ \A p \in Tasks : (task[p].pc # "idle") ~> (task[p].pc = "idle")

\* C16 witness: one validate_key call holds the three locks while the other
\* validate_key call and a get_license call wait for the first of them.
C16_Witness ==
    \E p \in Validators, q \in Validators, g \in Readers :
        /\ p # q
        /\ HeldBy(p) = Locks
        /\ Blocked(q) /\ task[q].held = 0
        /\ Blocked(g)

\* C17: when validate_key is about to return an error, the license state is
\* what the call found when it took the lock.  (Violated: cache_license_key
\* fails after the state was updated.)
C17_ErrorLeavesStateUnchanged ==
    \A p \in Validators :
        \A r \in task[p].res :
            (task[p].pc = "return" /\ ~r.ok) => licensed_state = task[p].before

\* C18: the cache file is written only by a validate_key call whose verified
\* response carries a license that is valid and has an expiry, and whose
\* caller asked for caching; the file never holds any other record.
C18_CachedOnlyWhenValidAndAsked ==
    /\ [](/\ \A w \in cached_by :
                /\ w.license.valid
                /\ w.license.expiry # {}
                /\ w.cache_valid_response
          /\ file = {w.res_cache : w \in cached_by}
          /\ \A r \in file :
                /\ RecordSigned(r)
                /\ r.body.data.valid
                /\ r.body.data.expiry # {})
    /\ [][file' # file =>
             \E p \in Validators :
                 /\ task[p].pc = "finish" /\ task'[p].pc = "return"
                 /\ task[p].cache_valid_response
                 /\ \E o \in task[p].out :
                       /\ o.license.valid /\ o.license.expiry # {}
                       /\ file' = {o.res_cache}]_vars
    /\ [][\A p \in Validators :
             (/\ task[p].pc = "finish" /\ task'[p].pc = "return"
              /\ \/ ~task[p].cache_valid_response
                 \/ \E o \in task[p].out :
                       ~o.license.valid \/ o.license.expiry = {})
             => file' = file]_vars

\* C18 witness: a call that asked for caching is about to return Ok for a
\* valid license with an expiry, and the cache file holds its response.
C18_Witness ==
    \E p \in Validators :
        /\ task[p].pc = "return"
        /\ task[p].res = {Ok}
        /\ task[p].cache_valid_response
        /\ \E o \in task[p].out :
              /\ o.license.valid /\ o.license.expiry # {}
              /\ file = {o.res_cache}
        /\ \E w \in cached_by : w.task = p

\* The checks of verify_response, stated on the response of the call.
HeaderParsed(r) == r.sigHeader = "ok"
DigestEqual(r) == r.digestHeader = {Digest(r.body)}
LiveFresh(r) ==
    /\ r.date.rfc2822
    /\ ~(max_clock_drift >= 0 /\ OlderThan(r.date, call.at, max_clock_drift))
ResponseSigned(r) ==
    SignedBy(verify_key, SigData(r.target, r.host, r.date, r.body), r.sig)

\* C3: verify_response returns Ok, with the record of the response, only if
\* the Digest header equals the digest of the body, the date is within the
\* live freshness window and the signature verifies under the configured key;
\* verify_response_cache returns Ok only if the record is within the cache
\* lifetime and its signature verifies.
C3_OkOnlyIfAllChecksPass ==
    /\ \A r \in call.resp :
          (IsLiveCall /\ call.res.ok) =>
              /\ HeaderParsed(r) /\ DigestEqual(r) /\ LiveFresh(r) /\ ResponseSigned(r)
              /\ returned = {[sig |-> r.sig, target |-> r.target, host |-> r.host,
                              date |-> r.date, body |-> r.body]}
    /\ \A r \in call.rec :
          (IsCacheCall /\ call.res.ok) =>
              r.date.rfc2822 /\ ~RecordExpired(r) /\ RecordSigned(r)
    /\ (IsLiveCall /\ ~call.res.ok) => returned = {}

\* C3 witness: verify_response returned Ok on a response that passes all checks.
C3_Witness ==
    /\ IsLiveCall
    /\ call.res.ok
    /\ returned # {}
    /\ \A r \in call.resp : DigestEqual(r) /\ LiveFresh(r) /\ ResponseSigned(r)

\* C4: verify_response reports the first failing check in the order
\* signature header, digest, freshness, signature.
C4_FirstFailureWins ==
    \A r \in call.resp :
        IsLiveCall =>
            /\ ~HeaderParsed(r) => call.res.kind = "ParseErr"
            /\ (HeaderParsed(r) /\ ~DigestEqual(r)) =>
                  call.res \in {Err("BadResponse", "Missing header: Digest"),
                                Err("BadResponse", "Digest didn't match")}
            /\ (HeaderParsed(r) /\ DigestEqual(r) /\ ~LiveFresh(r)) =>
                  call.res \in {Err("BadResponse", "Invalid signature date"),
                                Err("BadResponse", "Request date too old")}
            /\ (HeaderParsed(r) /\ DigestEqual(r) /\ LiveFresh(r) /\ ~ResponseSigned(r)) =>
                  call.res = Err("BadResponse", "Invalid Signature")

\* C4 witness: digest, freshness and signature all fail for the response, and
\* the digest error is the one returned.
C4_Witness ==
    /\ IsLiveCall
    /\ \E r \in call.resp :
          HeaderParsed(r) /\ ~DigestEqual(r) /\ ~LiveFresh(r) /\ ~ResponseSigned(r)
    /\ call.res = Err("BadResponse", "Digest didn't match")

\* C5: a response that reaches the freshness check is rejected as stale if and
\* only if max_clock_drift >= 0 and more than max_clock_drift whole minutes
\* have passed since its date.
C5_StaleIffBeyondDrift ==
    \A r \in call.resp :
        (IsLiveCall /\ HeaderParsed(r) /\ DigestEqual(r) /\ r.date.rfc2822) =>
            (call.res = Err("BadResponse", "Request date too old")
             <=> (/\ max_clock_drift >= 0
                  /\ call.at - r.date.t >= (max_clock_drift + 1) * SecondsPerMinute))

\* C5 witness: a response dated max_clock_drift minutes and a half before the
\* call passed the freshness check and was accepted.
C5_Witness ==
    /\ IsLiveCall
    /\ max_clock_drift >= 0
    /\ \E r \in call.resp :
          call.at - r.date.t = max_clock_drift * SecondsPerMinute + HalfMinute
    /\ call.res.ok

\* C9: with a verify key of another length than 32 bytes, a call that reaches
\* the signature step fails with a parse error.  (Violated: both entry points
\* report an invalid signature.)
C9_WrongKeyLengthIsParseError ==
    (/\ verify_key.len # PUBLIC_KEY_LENGTH
     /\ \A r \in call.resp : HeaderParsed(r) /\ DigestEqual(r) /\ LiveFresh(r)
     /\ \A r \in call.rec : r.date.rfc2822 /\ ~RecordExpired(r)
     /\ IsLiveCall \/ IsCacheCall)
    => call.res.kind = "ParseErr"

\* the fields of a record other than sig, one of which is altered
FieldAlterations == {"body", "date_bad", "date_other", "target", "host"}

C10_RemovedOnlyOnFailedTrust ==
    /\ [](/\ IsLiveCall => ~call.removed
          /\ (IsCacheCall /\ call.res.ok) => ~call.removed
          /\ \A r \in call.rec :
                call.removed =>
                    /\ IsCacheCall
                    /\ r.date.rfc2822
                    /\ RecordExpired(r) \/ ~RecordSigned(r))
    /\ [][(file # {} /\ file' = {}) => (call'.op = "verify_response_cache" /\ call'.removed)]_vars
    /\ [][(call'.op = "verify_response_cache" /\ call'.res.ok /\ call' # call)
            => file' = file]_vars
    /\ [][(call'.op = "verify_response" /\ call' # call) => file' = file]_vars

\* C10 witness: verify_response_cache returned Ok and the cache file it read
\* is still there.
C10_Witness ==
    /\ IsCacheCall
    /\ call.res.ok
    /\ call.existed /\ ~call.removed
    /\ call.rec = file

====
